---------------------------- MODULE Spec2Model ----------------------------
(***************************************************************************)
(* Model of SmartAccountProvider                                           *)
(* (src/client/src/contexts/SmartAccountContext.tsx): the wallet-readiness *)
(* watcher, initSmartAccount, retryWalletCreation and the two effects,     *)
(* and of the chain choice of deployGaslessCoin                            *)
(* (src/client/src/lib/gasless-deployment.ts).                             *)
(*                                                                         *)
(* React state is modelled by the value of the latest setState (the        *)
(* "store") and by the values the last render captured in the closures     *)
(* (the variable rendered).  Refs are read and written at once.  A render  *)
(* commits the store and runs the effects whose dependencies changed.      *)
(* An async call runs to its next await inside one action; a continuation  *)
(* of a settled promise is a microtask and runs before any other event.    *)
(***************************************************************************)
EXTENDS Integers, FiniteSets, Sequences, TLC

(* ------------------------------ bounds -------------------------------- *)

MaxSessions == 2      \* logins over a run
MaxWatchers == 2      \* readiness watchers created over a run
MaxCalls    == 2      \* initSmartAccount calls suspended at one time
TimeoutTicks == 2     \* clock steps the 25000 ms bound is divided into
MaxStale    == 1      \* events handled while a render is scheduled

(* --------------------------- program constants ------------------------ *)

WALLET_READY_TIMEOUT == 25000

TickLen == WALLET_READY_TIMEOUT \div TimeoutTicks

TimeoutMsg == "Wallet creation timeout. Please try again or refresh the page."

InitFailMsg == "Failed to initialize smart account"

NoError == "null"

EmbeddedType == "privy"

WalletTypes == {"privy", "metamask"}

SmartAccountStatus == {"idle", "waiting_for_wallet", "initializing", "ready", "error"}

\* localStorage.getItem('ADMIN_NETWORK_PREFERENCE'): "null" is the unset key.
NetworkPreferences == {"null", "sepolia", "mainnet"}

\* networkPreference === 'sepolia' ? baseSepolia : base
chainFor(preference) == IF preference = "sepolia" THEN "baseSepolia" ELSE "base"

VARIABLES
  ready,                   \* usePrivy().ready, latest value
  authenticated,           \* usePrivy().authenticated, latest value
  user,                    \* usePrivy().user: 0 is null, k > 0 the user of login k
  wallets,                 \* useWallets().wallets: the walletClientType of each wallet
  logins,                  \* logins so far
  smartAccountClient,      \* 0 is null, k > 0 a client built for owner k
  smartAccountAddress,     \* 0 is null, k > 0 the account address of owner k
  clientChain,             \* "none", or the chain the stored client was built on
  networkPreference,       \* the ADMIN_NETWORK_PREFERENCE key of localStorage
  isLoading,
  error,
  smartAccountStatus,
  walletReadyPromiseRef,   \* 0 is null, else the watcher's promise
  walletReadyResolveRef,   \* 0 is null, else the promise this resolver resolves
  timeoutIdRef,            \* 0 is null, else the timer of that watcher
  promises,                \* state of the promise of each watcher created
  timers,                  \* armed timers of the host: [id, remaining]
  nextId,                  \* watchers created so far
  calls,                   \* suspended initSmartAccount calls, oldest first
  rendered,                \* the values the last render's closures hold
  hasCleanup,              \* the bootstrap effect's last run returned a cleanup
  stale,                   \* events handled since a render was scheduled
  lastOp,                  \* the last step and what a call returned in it
  revoked                  \* watchers that were pending when a loss of auth was processed

vars == <<ready, authenticated, user, wallets, logins, smartAccountClient,
          smartAccountAddress, clientChain, networkPreference, isLoading, error, smartAccountStatus,
          walletReadyPromiseRef, walletReadyResolveRef, timeoutIdRef, promises,
          timers, nextId, calls, rendered, hasCleanup, stale, lastOp, revoked>>

privyVars == <<ready, authenticated, user, wallets, logins>>

(* ---------------------- the component's mutable state ----------------- *)

\* The state the handlers write, as one record, so that a handler is the
\* composition of the statements it runs.
Cur ==
  [client |-> smartAccountClient, address |-> smartAccountAddress,
   chain |-> clientChain, preference |-> networkPreference,
   isLoading |-> isLoading, error |-> error, status |-> smartAccountStatus,
   promiseRef |-> walletReadyPromiseRef, resolveRef |-> walletReadyResolveRef,
   timeoutRef |-> timeoutIdRef, promises |-> promises, timers |-> timers,
   nextId |-> nextId, calls |-> calls,
   cleanup |-> hasCleanup,
   ret |-> "none", val |-> 0, started |-> FALSE, ok |-> TRUE]

\* The promises something still holds: a ref, a timer's callback, a call.
Held(m) ==
  ({m.promiseRef, m.resolveRef} \ {0})
    \cup {t.id : t \in m.timers}
    \cup {m.calls[i].awaiting : i \in 1..Len(m.calls)}

Commit(m) ==
  /\ smartAccountClient' = m.client
  /\ smartAccountAddress' = m.address
  /\ clientChain' = m.chain
  /\ isLoading' = m.isLoading
  /\ error' = m.error
  /\ smartAccountStatus' = m.status
  /\ walletReadyPromiseRef' = m.promiseRef
  /\ walletReadyResolveRef' = m.resolveRef
  /\ timeoutIdRef' = m.timeoutRef
  /\ promises' = [i \in DOMAIN m.promises |->
                    IF i \in Held(m) THEN m.promises[i] ELSE "none"]
  /\ timers' = m.timers
  /\ nextId' = m.nextId
  /\ calls' = m.calls
  /\ hasCleanup' = m.cleanup

\* What a render captures: the dependencies of initSmartAccount,
\* retryWalletCreation and the two effects.
Snapshot ==
  [ready |-> ready, authenticated |-> authenticated, user |-> user,
   wallets |-> wallets, client |-> smartAccountClient,
   address |-> smartAccountAddress, chain |-> clientChain, isLoading |-> isLoading]

CallIds == 1..Len(calls)

Remove(q, i) == [j \in 1..(Len(q) - 1) |-> IF j < i THEN q[j] ELSE q[j + 1]]

Settled(m, c) ==
  /\ m.calls[c].pc = "await_watcher"
  /\ m.promises[m.calls[c].awaiting] \in {"resolved", "rejected"}

\* A continuation of a settled promise is queued: it runs before the next event.
MicrotaskPending == \E c \in CallIds : Settled(Cur, c)

\* An event the host may deliver now: no microtask is queued, and a
\* scheduled render is overtaken by at most MaxStale events.
Deliverable == ~MicrotaskPending /\ (Snapshot = rendered \/ stale < MaxStale)

Counted == stale' = IF Snapshot = rendered THEN 0 ELSE stale + 1

hasPrivyWallet(ws) == EmbeddedType \in ws

(* ------------------------------ the watcher --------------------------- *)

clearTimeout(m, id) == [m EXCEPT !.timers = {t \in m.timers : t.id # id}]

\* Faulty variant: the refs are reset and the timer is left armed.
clearWalletReadinessWatcher_KeepsTimer(m) ==
  [m EXCEPT !.timeoutRef = 0, !.promiseRef = 0, !.resolveRef = 0]

clearWalletReadinessWatcher(m) ==
  LET m1 == IF m.timeoutRef # 0
            THEN [clearTimeout(m, m.timeoutRef) EXCEPT !.timeoutRef = 0]
            ELSE m
  IN [m1 EXCEPT !.promiseRef = 0, !.resolveRef = 0]

createWalletReadinessWatcher(m) ==
  LET m1 == clearWalletReadinessWatcher(m)
      id == m1.nextId + 1
  IN IF id > MaxWatchers THEN [m EXCEPT !.ok = FALSE] ELSE
     [m1 EXCEPT !.status = "waiting_for_wallet",
                !.nextId = id,
                !.promises = [m1.promises EXCEPT ![id] = "pending"],
                !.promiseRef = id,
                !.resolveRef = id,
                !.timeoutRef = id,
                !.timers = m1.timers \cup {[id |-> id, remaining |-> WALLET_READY_TIMEOUT]}]

\* walletReadyResolveRef.current(): settles the promise unless it is settled.
resolve(m) ==
  IF m.resolveRef # 0 /\ m.promises[m.resolveRef] = "pending"
  THEN [m EXCEPT !.promises = [m.promises EXCEPT ![m.resolveRef] = "resolved"]]
  ELSE m

\* The setTimeout callback of watcher id.
onTimeout(m, id) ==
  LET m1 == [m EXCEPT !.timers = {t \in m.timers : t.id # id},
                      !.status = "error",
                      !.error = TimeoutMsg,
                      !.promises = [m.promises EXCEPT ![id] =
                                      IF @ = "pending" THEN "rejected" ELSE @]]
  IN clearWalletReadinessWatcher(m1)

(* --------------------------- initSmartAccount ------------------------- *)

return(m, c, ret, val) ==
  [m EXCEPT !.calls = Remove(m.calls, c), !.ret = ret, !.val = val]

\* Faulty variant: the await on the watcher is outside any try.
catchWatcherError_Uncaught(m, c) == return(m, c, "rejected", 0)

\* catch of the await on the watcher: lines 113-118.
catchWatcherError(m, c) ==
  return([m EXCEPT !.error = TimeoutMsg, !.status = "error"], c, "null", 0)

\* catch and finally of the initialization: lines 227-234.
catchInitError(m, c) ==
  return([m EXCEPT !.error = InitFailMsg, !.status = "error", !.isLoading = FALSE],
         c, "null", 0)

\* Faulty variant: status stays initializing when no embedded wallet is found.
startInit_KeepsInitializing(m, c) ==
  LET m1 == [m EXCEPT !.isLoading = TRUE, !.status = "initializing", !.error = NoError]
  IN IF ~hasPrivyWallet(m1.calls[c].wallets)
     THEN return([m1 EXCEPT !.isLoading = FALSE], c, "null", 0)
     ELSE [m1 EXCEPT !.calls = [m1.calls EXCEPT
                                  ![c].pc = "await_init",
                                  ![c].chain = chainFor(m1.preference)],
                     !.started = TRUE]

\* Lines 121-161 of call c: up to the first await of the initialization.
startInit(m, c) ==
  LET m1 == [m EXCEPT !.isLoading = TRUE, !.status = "initializing", !.error = NoError]
  IN IF ~hasPrivyWallet(m1.calls[c].wallets)
     THEN return([m1 EXCEPT !.isLoading = FALSE, !.status = "waiting_for_wallet"],
                 c, "null", 0)
     ELSE [m1 EXCEPT !.calls = [m1.calls EXCEPT
                                  ![c].pc = "await_init",
                                  ![c].chain = chainFor(m1.preference)],
                     !.started = TRUE]

\* Lines 216-226 and the finally of call c: the initializer succeeded.
finishInit(m, c) ==
  LET owner == m.calls[c].user
      m1 == clearWalletReadinessWatcher(m)
  IN return([m1 EXCEPT !.client = owner, !.address = owner,
                       !.chain = m.calls[c].chain, !.status = "ready",
                       !.isLoading = FALSE],
            c, "handle", owner)

\* Faulty variant: no cached-handle fast path.
initSmartAccount_NoFastPath(m, r) ==
  IF ~r.authenticated \/ r.user = 0
  THEN [m EXCEPT !.ret = "null", !.val = 0]
  ELSE IF Len(m.calls) >= MaxCalls
  THEN [m EXCEPT !.ok = FALSE]
  ELSE LET c == Len(m.calls) + 1
           call == [pc |-> "await_watcher", awaiting |-> m.promiseRef,
                    wallets |-> r.wallets, user |-> r.user,
                    chain |-> "none"]
           m1 == [m EXCEPT !.calls = Append(m.calls, call), !.ret = "none"]
       IN IF m.promiseRef # 0
          THEN [m1 EXCEPT !.status = "waiting_for_wallet"]
          ELSE startInit(m1, c)

\* Faulty variant: no check of the session.
initSmartAccount_NoAuthCheck(m, r) ==
  IF r.client # 0 /\ r.address # 0
  THEN [m EXCEPT !.ret = "handle", !.val = r.client]
  ELSE IF Len(m.calls) >= MaxCalls
  THEN [m EXCEPT !.ok = FALSE]
  ELSE LET c == Len(m.calls) + 1
           call == [pc |-> "await_watcher", awaiting |-> m.promiseRef,
                    wallets |-> r.wallets, user |-> r.user,
                    chain |-> "none"]
           m1 == [m EXCEPT !.calls = Append(m.calls, call), !.ret = "none"]
       IN IF m.promiseRef # 0
          THEN [m1 EXCEPT !.status = "waiting_for_wallet"]
          ELSE startInit(m1, c)

\* initSmartAccount as the closure of render r: runs to its
\* first await or to its return.
initSmartAccount(m, r) ==
  IF ~r.authenticated \/ r.user = 0
  THEN [m EXCEPT !.ret = "null", !.val = 0]
  ELSE IF r.client # 0 /\ r.address # 0
  THEN [m EXCEPT !.ret = "handle", !.val = r.client]
  ELSE IF Len(m.calls) >= MaxCalls
  THEN [m EXCEPT !.ok = FALSE]
  ELSE LET c == Len(m.calls) + 1
           call == [pc |-> "await_watcher", awaiting |-> m.promiseRef,
                    wallets |-> r.wallets, user |-> r.user,
                    chain |-> "none"]
           m1 == [m EXCEPT !.calls = Append(m.calls, call), !.ret = "none"]
       IN IF m.promiseRef # 0
          THEN [m1 EXCEPT !.status = "waiting_for_wallet"]
          ELSE startInit(m1, c)

\* The continuation of `await walletReadyPromiseRef.current` in call c.
resumeAfterWatcher(m, c) ==
  IF m.promises[m.calls[c].awaiting] = "rejected"
  THEN catchWatcherError(m, c)
  ELSE startInit(m, c)

(* -------------------------- retryWalletCreation ----------------------- *)

retryWalletCreation(m, r) ==
  LET m1 == clearWalletReadinessWatcher([m EXCEPT !.error = NoError])
  IN IF hasPrivyWallet(r.wallets)
     THEN initSmartAccount(clearWalletReadinessWatcher(resolve(m1)), r)
     ELSE LET m2 == createWalletReadinessWatcher(m1)
          IN IF m2.ok THEN initSmartAccount(m2, r) ELSE m2

(* ------------------------------- effects ------------------------------ *)

\* Faulty variant: a loss of authentication resets status and leaves the watcher.
bootstrapEffect_KeepsWatcherOnLoss(m, r) ==
  IF ~r.ready \/ ~r.authenticated
  THEN [m EXCEPT !.status = "idle", !.cleanup = FALSE]
  ELSE IF hasPrivyWallet(r.wallets)
  THEN [clearWalletReadinessWatcher(resolve(m)) EXCEPT !.cleanup = FALSE]
  ELSE IF m.promiseRef = 0
  THEN [createWalletReadinessWatcher(m) EXCEPT !.cleanup = TRUE]
  ELSE [m EXCEPT !.cleanup = FALSE]

\* The bootstrap effect's body, lines 257-281.
bootstrapEffect(m, r) ==
  IF ~r.ready \/ ~r.authenticated
  THEN [clearWalletReadinessWatcher(m) EXCEPT !.status = "idle", !.cleanup = FALSE]
  ELSE IF hasPrivyWallet(r.wallets)
  THEN [clearWalletReadinessWatcher(resolve(m)) EXCEPT !.cleanup = FALSE]
  ELSE IF m.promiseRef = 0
  THEN [createWalletReadinessWatcher(m) EXCEPT !.cleanup = TRUE]
  ELSE [m EXCEPT !.cleanup = FALSE]

\* The auto-initialize effect's body, lines 284-288.
autoInitEffect(m, r) ==
  IF r.ready /\ r.authenticated /\ r.wallets # {} /\ r.client = 0 /\ ~r.isLoading
  THEN initSmartAccount(m, r)
  ELSE m

bootstrapDepsChanged(old, new) ==
  \/ old.ready # new.ready
  \/ old.authenticated # new.authenticated
  \/ old.wallets # new.wallets

\* A render with the values new after one with the values old: the cleanup
\* of the bootstrap effect's last run, then the effects whose dependencies
\* changed, in the order of their declaration.
render(m, old, new) ==
  LET m1 == IF bootstrapDepsChanged(old, new)
            THEN bootstrapEffect(IF m.cleanup THEN clearWalletReadinessWatcher(m) ELSE m,
                                 new)
            ELSE m
  IN IF m1.ok THEN autoInitEffect(m1, new) ELSE m1

(* ------------------------------- actions ------------------------------ *)

Op(name, m) == [op |-> name, ret |-> m.ret, val |-> m.val, started |-> m.started]

NoOp(name) == [op |-> name, ret |-> "none", val |-> 0, started |-> FALSE]

Init ==
  /\ ready = FALSE
  /\ authenticated = FALSE
  /\ user = 0
  /\ wallets = {}
  /\ logins = 0
  /\ smartAccountClient = 0
  /\ smartAccountAddress = 0
  /\ clientChain = "none"
  /\ networkPreference = "null"
  /\ isLoading = FALSE
  /\ error = NoError
  /\ smartAccountStatus = "idle"
  /\ walletReadyPromiseRef = 0
  /\ walletReadyResolveRef = 0
  /\ timeoutIdRef = 0
  /\ promises = [i \in 1..(MaxWatchers + 1) |-> "none"]
  /\ timers = {}
  /\ nextId = 0
  /\ calls = <<>>
  /\ rendered = [ready |-> FALSE, authenticated |-> FALSE, user |-> 0, wallets |-> {},
                 client |-> 0, address |-> 0, chain |-> "none", isLoading |-> FALSE]
  /\ hasCleanup = FALSE
  /\ stale = 0
  /\ lastOp = NoOp("mount")
  /\ revoked = {}

\* usePrivy() reports that the auth subsystem is initialized.
PrivyReady ==
  /\ Deliverable
  /\ Counted
  /\ ~ready
  /\ ready' = TRUE
  /\ lastOp' = NoOp("privyReady")
  /\ UNCHANGED <<authenticated, user, wallets, logins, smartAccountClient, clientChain,
                 networkPreference,
                 smartAccountAddress, isLoading, error, smartAccountStatus,
                 walletReadyPromiseRef, walletReadyResolveRef, timeoutIdRef,
                 promises, timers, nextId, calls, rendered, hasCleanup, revoked>>

Login ==
  /\ Deliverable
  /\ Counted
  /\ ready /\ ~authenticated
  /\ logins < MaxSessions
  /\ authenticated' = TRUE
  /\ logins' = logins + 1
  /\ user' = logins + 1
  /\ lastOp' = NoOp("login")
  /\ UNCHANGED <<ready, wallets, smartAccountClient, clientChain,
                 networkPreference,
                 smartAccountAddress, isLoading, error, smartAccountStatus,
                 walletReadyPromiseRef, walletReadyResolveRef, timeoutIdRef,
                 promises, timers, nextId, calls, rendered, hasCleanup, revoked>>

\* The embedded wallet belongs to the session and leaves the list with it.
Logout ==
  /\ Deliverable
  /\ Counted
  /\ authenticated
  /\ authenticated' = FALSE
  /\ user' = 0
  /\ wallets' = wallets \ {EmbeddedType}
  /\ lastOp' = NoOp("logout")
  /\ UNCHANGED <<ready, logins, smartAccountClient, clientChain,
                 networkPreference,
                 smartAccountAddress, isLoading, error, smartAccountStatus,
                 walletReadyPromiseRef, walletReadyResolveRef, timeoutIdRef,
                 promises, timers, nextId, calls, rendered, hasCleanup, revoked>>

\* useWallets() reports the list ws.  An embedded wallet is listed only in
\* an authenticated session.
WalletsTo(ws) ==
  /\ Deliverable
  /\ Counted
  /\ ws # wallets
  /\ hasPrivyWallet(ws) => authenticated
  /\ wallets' = ws
  /\ lastOp' = NoOp("wallets")
  /\ UNCHANGED <<ready, authenticated, user, logins, smartAccountClient, clientChain,
                 networkPreference,
                 smartAccountAddress, isLoading, error, smartAccountStatus,
                 walletReadyPromiseRef, walletReadyResolveRef, timeoutIdRef,
                 promises, timers, nextId, calls, rendered, hasCleanup, revoked>>

\* A render commits the latest values and runs the effects.
Render ==
  /\ ~MicrotaskPending
  /\ Snapshot # rendered
  /\ LET m == render(Cur, rendered, Snapshot)
         lost == bootstrapDepsChanged(rendered, Snapshot)
                   /\ (~ready \/ ~authenticated)
     IN /\ m.ok
        /\ Commit(m)
        /\ lastOp' = Op("render", m)
        /\ revoked' = IF lost
                      THEN revoked \cup ({walletReadyPromiseRef} \ {0})
                                   \cup {t.id : t \in timers}
                      ELSE revoked
  /\ rendered' = Snapshot
  /\ stale' = 0
  /\ UNCHANGED <<privyVars, networkPreference>>

\* A consumer calls initSmartAccount of the last render.
EnsureReady ==
  /\ Deliverable
  /\ Counted
  /\ LET m == initSmartAccount(Cur, rendered)
     IN /\ m.ok
        /\ Commit(m)
        /\ lastOp' = Op("ensureReady", m)
  /\ UNCHANGED <<privyVars, networkPreference, rendered, revoked>>

\* A consumer calls retryWalletCreation of the last render.
Retry ==
  /\ Deliverable
  /\ Counted
  /\ LET m == retryWalletCreation(Cur, rendered)
     IN /\ m.ok
        /\ Commit(m)
        /\ lastOp' = Op("retry", m)
  /\ UNCHANGED <<privyVars, networkPreference, rendered, revoked>>

\* Time passes: every armed timer comes one clock step closer.
Tick ==
  /\ ~MicrotaskPending
  /\ Snapshot = rendered
  /\ UNCHANGED stale
  /\ \E t \in timers : t.remaining > 0
  /\ timers' = {[t EXCEPT !.remaining = IF @ > TickLen THEN @ - TickLen ELSE 0] :
                  t \in timers}
  /\ lastOp' = NoOp("tick")
  /\ UNCHANGED <<privyVars, networkPreference, smartAccountClient, clientChain,
                 smartAccountAddress, isLoading, error, smartAccountStatus,
                 walletReadyPromiseRef, walletReadyResolveRef, timeoutIdRef,
                 promises, nextId, calls, rendered, hasCleanup, revoked>>

\* The host runs the callback of a timer that is due.
Timeout ==
  /\ Deliverable
  /\ Counted
  /\ \E t \in timers :
       /\ t.remaining = 0
       /\ LET m == onTimeout(Cur, t.id)
          IN /\ Commit(m)
             /\ lastOp' = [Op("timeout", m) EXCEPT !.val = t.id]
  /\ UNCHANGED <<privyVars, networkPreference, rendered, revoked>>

\* The continuation of a call whose watcher settled.
Resume ==
  /\ UNCHANGED stale
  /\ \E c \in CallIds :
       /\ Settled(Cur, c)
       /\ \A d \in 1..(c - 1) : ~Settled(Cur, d)
       /\ LET m == resumeAfterWatcher(Cur, c)
          IN /\ Commit(m)
             /\ lastOp' = [Op(IF promises[calls[c].awaiting] = "rejected"
                              THEN "resumeRejected" ELSE "resumeResolved", m)
                           EXCEPT !.val = calls[c].awaiting]
  /\ UNCHANGED <<privyVars, networkPreference, rendered, revoked>>

\* The SmartAccountInitializer of a call completes.
InitSucceed ==
  /\ Deliverable
  /\ Counted
  /\ \E c \in CallIds :
       /\ calls[c].pc = "await_init"
       /\ LET m == finishInit(Cur, c)
          IN /\ Commit(m)
             /\ lastOp' = Op("initOk", m)
  /\ UNCHANGED <<privyVars, networkPreference, rendered, revoked>>

\* The SmartAccountInitializer of a call throws.
InitFail ==
  /\ Deliverable
  /\ Counted
  /\ \E c \in CallIds :
       /\ calls[c].pc = "await_init"
       /\ LET m == catchInitError(Cur, c)
          IN /\ Commit(m)
             /\ lastOp' = Op("initFail", m)
  /\ UNCHANGED <<privyVars, networkPreference, rendered, revoked>>

WalletsChange == \E ws \in SUBSET WalletTypes : WalletsTo(ws)

\* The list changes, and an embedded wallet stays listed until logout.
WalletsGrow ==
  \E ws \in SUBSET WalletTypes :
    /\ hasPrivyWallet(wallets) => hasPrivyWallet(ws)
    /\ WalletsTo(ws)

Next ==
  \/ PrivyReady
  \/ Login
  \/ Logout
  \/ WalletsChange
  \/ Render
  \/ EnsureReady
  \/ Retry
  \/ Tick
  \/ Timeout
  \/ Resume
  \/ InitSucceed
  \/ InitFail

Spec == Init /\ [][Next]_vars

\* The same component where the embedded wallet of a session, once listed,
\* stays listed until the session ends.
NextStable ==
  \/ PrivyReady
  \/ Login
  \/ Logout
  \/ WalletsGrow
  \/ Render
  \/ EnsureReady
  \/ Retry
  \/ Tick
  \/ Timeout
  \/ Resume
  \/ InitSucceed
  \/ InitFail

SpecStable == Init /\ [][NextStable]_vars

\* The admin setting writes the ADMIN_NETWORK_PREFERENCE key.
SetNetworkPreference ==
  /\ Deliverable
  /\ Counted
  /\ \E p \in NetworkPreferences \ {networkPreference} : networkPreference' = p
  /\ lastOp' = NoOp("setPreference")
  /\ UNCHANGED <<privyVars, smartAccountClient, clientChain,
                 smartAccountAddress, isLoading, error, smartAccountStatus,
                 walletReadyPromiseRef, walletReadyResolveRef, timeoutIdRef,
                 promises, timers, nextId, calls, rendered, hasCleanup,
                 revoked>>

\* A consumer calls deployGaslessCoin with the client of the last render:
\* the chain is chosen from the key at the call, the same chain serves the
\* public client that waits for the receipt and the chainId of the result;
\* the call throws when sending or the receipt fails.
deployGaslessCoin ==
  /\ Deliverable
  /\ Counted
  /\ rendered.client # 0
  /\ \E thrown \in BOOLEAN :
       lastOp' = [op |-> "deploy",
                  ret |-> IF thrown THEN "thrown" ELSE chainFor(networkPreference),
                  val |-> rendered.client, started |-> FALSE]
  /\ UNCHANGED <<privyVars, networkPreference, smartAccountClient, clientChain,
                 smartAccountAddress, isLoading, error, smartAccountStatus,
                 walletReadyPromiseRef, walletReadyResolveRef, timeoutIdRef,
                 promises, timers, nextId, calls, rendered, hasCleanup, revoked>>

\* One session of the component together with the admin setting and the
\* deployments made with the client of that session.
NextDeploy ==
  \/ PrivyReady
  \/ Login
  \/ WalletsGrow
  \/ Render
  \/ EnsureReady
  \/ Retry
  \/ Tick
  \/ Timeout
  \/ Resume
  \/ InitSucceed
  \/ InitFail
  \/ SetNetworkPreference
  \/ deployGaslessCoin

SpecDeploy == Init /\ [][NextDeploy]_vars

TypeOK ==
  /\ networkPreference \in NetworkPreferences
  /\ clientChain \in {"none", "base", "baseSepolia"}
  /\ smartAccountStatus \in SmartAccountStatus
  /\ error \in {NoError, TimeoutMsg, InitFailMsg}
  /\ nextId \in 0..MaxWatchers
  /\ \A t \in timers : t.id \in 1..MaxWatchers /\ t.remaining \in 0..WALLET_READY_TIMEOUT

(* ------------------------------- claims ------------------------------- *)

watcherVars == <<walletReadyPromiseRef, walletReadyResolveRef, timeoutIdRef, timers>>

\* C1: at most one watcher and at most one armed timer exist at any time:
\* the three refs name the same watcher or are all null, the only timer
\* armed is that watcher's, and the timer whose callback runs is always the
\* newest watcher's, never one armed before a retry or a newer watcher.
C1_OneWatcher ==
  /\ Cardinality(timers) <= 1
  /\ walletReadyPromiseRef = walletReadyResolveRef
  /\ walletReadyPromiseRef = timeoutIdRef
  /\ {t.id : t \in timers} = {timeoutIdRef} \ {0}
  /\ lastOp.op = "timeout" => lastOp.val = nextId

\* A second watcher superseded the first while a call was still suspended
\* on the first one.
C1_Witness ==
  /\ timeoutIdRef = 2
  /\ Cardinality(timers) = 1
  /\ \E c \in CallIds : calls[c].awaiting = 1 /\ promises[1] = "pending"

\* C2: once a loss of authentication (or of readiness) has been processed,
\* the timer of a watcher that was pending then is not armed, its timeout
\* callback never runs, and no call reports its timeout.
C2_NoEffectAfterRevocation ==
  \A id \in revoked :
    /\ \A t \in timers : t.id # id
    /\ ~(lastOp.op \in {"timeout", "resumeRejected"} /\ lastOp.val = id)

\* A watcher was pending when the loss was processed, and a later session's
\* watcher has since run into its own timeout.
C2_Witness ==
  /\ revoked # {}
  /\ lastOp.op = "timeout"

C9_NeverRejects ==
  /\ lastOp.ret # "rejected"
  /\ lastOp.op \in {"resumeRejected", "initFail"} =>
       /\ smartAccountStatus = "error"
       /\ error # NoError
       /\ lastOp.ret = "null"

\* A suspended call has caught the rejection of its watcher.
C9_Witness ==
  /\ lastOp.op = "resumeRejected"
  /\ lastOp.ret = "null"
  /\ error = TimeoutMsg

\* C3: a call of initSmartAccount that was suspended on the watcher and
\* resumes because the embedded wallet appeared within the bound goes on to
\* the initializer (and so returns the handle when the initializer
\* succeeds): it does not return null, and status is initializing, not error.
C3_ResolvesToHandle ==
  lastOp.op = "resumeResolved" =>
    /\ lastOp.ret # "null"
    /\ lastOp.started
    /\ smartAccountStatus = "initializing"

\* C4: when the bound elapses in a session that is authenticated and has no
\* embedded wallet, the timeout callback finds status waiting_for_wallet and
\* sets it to error, stores the timeout message and discards the watcher;
\* a call suspended on the watcher then changes neither status nor error,
\* so the change to error happens exactly once.
C4_TimeoutOnce ==
  [][/\ (/\ lastOp'.op = "timeout"
         /\ authenticated /\ rendered.authenticated
         /\ ~hasPrivyWallet(wallets))
        => (/\ smartAccountStatus = "waiting_for_wallet"
            /\ smartAccountStatus' = "error"
            /\ error' = TimeoutMsg
            /\ walletReadyPromiseRef' = 0
            /\ walletReadyResolveRef' = 0
            /\ timeoutIdRef' = 0
            /\ timers' = {})
     /\ lastOp'.op = "resumeRejected"
        => (/\ smartAccountStatus = "error"
            /\ UNCHANGED <<smartAccountStatus, error>>)]_vars

\* C5: retryWalletCreation called after a watcher timeout, in an
\* authenticated session whose wallet list holds an embedded wallet, creates
\* no watcher and writes status initializing: the initializer is started
\* without waiting again.
C5_RetryInitializes ==
  [][(/\ lastOp'.op = "retry"
      /\ smartAccountStatus = "error" /\ error = TimeoutMsg
      /\ rendered.authenticated /\ rendered.user # 0
      /\ hasPrivyWallet(rendered.wallets))
     => (/\ walletReadyPromiseRef' = 0
         /\ timers' = {}
         /\ nextId' = nextId
         /\ smartAccountStatus' = "initializing"
         /\ lastOp'.started)]_vars

\* C7: once a loss of authentication has been processed the stored handle
\* is null, and a call of initSmartAccount never returns a handle built for
\* the user of an earlier session.
C7_HandleClearedOnLogout ==
  /\ (~authenticated /\ ~rendered.authenticated) =>
       (smartAccountClient = 0 /\ smartAccountAddress = 0)
  /\ (lastOp.op = "ensureReady" /\ lastOp.ret = "handle") =>
       lastOp.val = rendered.user

\* C8: after the initializer failed and status became error, a render starts
\* the initializer again only when the auth state or the wallet list
\* changed; the isLoading change of the failed attempt starts nothing.
C8_NoAutoRetry ==
  [][(/\ lastOp'.op = "render"
      /\ lastOp'.started
      /\ smartAccountStatus = "error" /\ error = InitFailMsg)
     => bootstrapDepsChanged(rendered, rendered')]_vars

\* C10: status becomes ready only by a successful initialization; it
\* becomes error only from waiting_for_wallet by a watcher timeout or from
\* initializing by a failure of the initializer.
C10_StatusTransitions ==
  [][/\ (smartAccountStatus # "ready" /\ smartAccountStatus' = "ready")
        => lastOp'.op = "initOk"
     /\ (smartAccountStatus # "error" /\ smartAccountStatus' = "error")
        => \/ smartAccountStatus = "waiting_for_wallet" /\ lastOp'.op = "timeout"
           \/ smartAccountStatus = "initializing" /\ lastOp'.op = "initFail"]_vars

\* C11: when a render processes the appearance of an embedded wallet in an
\* authenticated session while a watcher is pending, the promise of that
\* watcher is resolved, so that the calls suspended on it resume.
C11_WalletResolvesWatcher ==
  [][(/\ lastOp'.op = "render"
      /\ rendered'.ready /\ rendered'.authenticated
      /\ ~hasPrivyWallet(rendered.wallets) /\ hasPrivyWallet(rendered'.wallets)
      /\ walletReadyPromiseRef # 0
      /\ promises[walletReadyPromiseRef] = "pending"
      /\ \E c \in CallIds : calls[c].awaiting = walletReadyPromiseRef)
     => promises'[walletReadyPromiseRef] = "resolved"]_vars

\* The call the next Resume step continues: the oldest one whose watcher settled.
ResumedCall ==
  CHOOSE c \in CallIds : Settled(Cur, c) /\ \A d \in 1..(c - 1) : ~Settled(Cur, d)

\* The outcome of a call that examines the wallet list ws.
ExaminedOutcome(ws) ==
  IF hasPrivyWallet(ws)
  THEN /\ smartAccountStatus' = "initializing"
       /\ lastOp'.started
       /\ lastOp'.ret = "none"
  ELSE /\ smartAccountStatus' = "waiting_for_wallet"
       /\ lastOp'.ret = "null"
       /\ ~lastOp'.started
       /\ isLoading' = FALSE

\* C12: a call of initSmartAccount that gets to examine its wallet list (a
\* direct call with a session, no handle and no watcher, or a call resumed
\* by its watcher) leaves status waiting_for_wallet and returns null when
\* the list holds no embedded wallet, and leaves status initializing with
\* the initializer started when it holds one; status becomes initializing
\* in no other way.
C12_InitializingOnlyWithWallet ==
  [][/\ (/\ lastOp'.op = "ensureReady"
         /\ rendered.authenticated /\ rendered.user # 0
         /\ ~(rendered.client # 0 /\ rendered.address # 0)
         /\ walletReadyPromiseRef = 0)
        => ExaminedOutcome(rendered.wallets)
     /\ lastOp'.op = "resumeResolved"
        => ExaminedOutcome(calls[ResumedCall].wallets)
     /\ (smartAccountStatus # "initializing" /\ smartAccountStatus' = "initializing")
        => /\ lastOp'.started
           /\ \E c \in DOMAIN calls' :
                calls'[c].pc = "await_init" /\ hasPrivyWallet(calls'[c].wallets)]_vars

\* A direct call in a session whose list holds only an external wallet
\* found no embedded wallet.
C12_Witness ==
  /\ lastOp.op = "ensureReady"
  /\ lastOp.ret = "null"
  /\ smartAccountStatus = "waiting_for_wallet"
  /\ rendered.authenticated
  /\ rendered.wallets = {"metamask"}
  /\ walletReadyPromiseRef = 0
  /\ calls = <<>>

\* C13: immediately after retryWalletCreation the stored error is null and
\* every watcher and timer that existed before the call is gone; when the
\* wallet list holds no embedded wallet, exactly one new watcher exists, its
\* timer has the full bound, and the initSmartAccount call that retry
\* issued is suspended on that watcher.
C13_RetryDiscardsAndWaits ==
  [][lastOp'.op = "retry"
     => /\ error' = NoError
        /\ timers \cap timers' = {}
        /\ walletReadyPromiseRef # 0 => walletReadyPromiseRef' # walletReadyPromiseRef
        /\ ~hasPrivyWallet(rendered.wallets)
           => /\ nextId' = nextId + 1
              /\ walletReadyPromiseRef' = nextId'
              /\ timers' = {[id |-> nextId', remaining |-> WALLET_READY_TIMEOUT]}
              /\ Len(calls') = Len(calls) + 1
              /\ calls'[Len(calls')].pc = "await_watcher"
              /\ calls'[Len(calls')].awaiting = nextId']_vars

\* C14: two initializations of one session run at the same time; when one
\* has succeeded and the other then completes, in an authenticated session,
\* a handle is stored, status is ready and the stored error is null.
C14_BenignRace ==
  [][(/\ lastOp.op = "initOk"
      /\ Len(calls) = 1
      /\ calls[1].pc = "await_init"
      /\ calls[1].user = lastOp.val
      /\ authenticated /\ rendered.authenticated /\ user = lastOp.val
      /\ lastOp'.op \in {"initOk", "initFail"})
     => (/\ smartAccountClient' # 0
         /\ smartAccountAddress' # 0
         /\ smartAccountStatus' = "ready"
         /\ error' = NoError)]_vars

\* C15: after a session has ended and the render that follows has processed
\* the loss, while no session is authenticated no watcher exists, no timer
\* is armed and status is idle.
C15_IdleWithoutSession ==
  (/\ logins > 0
   /\ ~(ready /\ authenticated)
   /\ ~(rendered.ready /\ rendered.authenticated)
   /\ Snapshot = rendered)
    => /\ walletReadyPromiseRef = 0
       /\ timers = {}
       /\ smartAccountStatus = "idle"

\* C16: a call of initSmartAccount suspended on a watcher eventually
\* returns.  It returns only after the promise it awaits is settled, and a
\* pending promise is settled only through walletReadyResolveRef or by the
\* callback of its armed timer; so every suspended call awaits a promise
\* that is settled already or that the resolver ref or an armed timer can
\* still settle.
C16_AwaitedWatcherSettles ==
  \A c \in CallIds :
    (calls[c].pc = "await_watcher" /\ promises[calls[c].awaiting] = "pending")
      => \/ walletReadyResolveRef = calls[c].awaiting
         \/ \E t \in timers : t.id = calls[c].awaiting

\* C17: a call of initSmartAccount whose render holds no authenticated
\* session returns null, does not start the initializer, and leaves status,
\* error, isLoading, the handle, the watcher and the timer as they are.
C17_UnauthenticatedIsNoOp ==
  [][(/\ lastOp'.op = "ensureReady"
      /\ (~rendered.authenticated \/ rendered.user = 0))
     => (/\ lastOp'.ret = "null"
         /\ ~lastOp'.started
         /\ UNCHANGED <<smartAccountStatus, error, isLoading, smartAccountClient,
                        smartAccountAddress, calls, promises, watcherVars>>)]_vars

\* A call without a session returned null while a watcher was pending.
C17_Witness ==
  /\ lastOp.op = "ensureReady"
  /\ lastOp.ret = "null"
  /\ ~rendered.authenticated
  /\ walletReadyPromiseRef # 0
  /\ calls = <<>>

\* C18: in every state the component has rendered, status is ready exactly
\* when a handle (client and address) is stored.
C18_ReadyIffHandle ==
  Snapshot = rendered =>
    ((smartAccountStatus = "ready")
       <=> (smartAccountClient # 0 /\ smartAccountAddress # 0))

\* C19: when the callback of a watcher's timer rejects the promise in an
\* authenticated session, a call of initSmartAccount is suspended on that
\* promise and catches the rejection: no rejection is left without a
\* handler.
C19_RejectionHandled ==
  [][(lastOp'.op = "timeout" /\ authenticated /\ rendered.authenticated)
     => \E c \in CallIds :
          calls[c].pc = "await_watcher" /\ calls[c].awaiting = lastOp'.val]_vars

\* C20: the chainId a deployment returns is the chain the client passed to
\* it was built on, and it is the test network exactly when the key equals
\* 'sepolia'.
C20_DeployOnClientChain ==
  (lastOp.op = "deploy" /\ lastOp.ret # "thrown")
    => /\ lastOp.ret = rendered.chain
       /\ (lastOp.ret = "baseSepolia") <=> (networkPreference = "sepolia")

=============================================================================
